---- MODULE Spec2Model ----
(***************************************************************************)
(* Frame hand-off and result-delivery pipeline of InferenceEngine          *)
(* (src/src/core/inference.py) together with its consumer                  *)
(* SiliconScopeApp.process_results (src/src/tui/app.py).                   *)
(*                                                                         *)
(* Threads of the model:                                                   *)
(*   "ui"   the thread that runs the asyncio event loop of the consumer:   *)
(*          it calls start() and stop(), runs the callbacks the worker     *)
(*          posts with call_soon_threadsafe, and polls the result queue.   *)
(*          While it is inside start() or stop() it runs no callback and   *)
(*          no poll (the event loop is single-threaded).                   *)
(*   "aux"  a thread without a running event loop (the frame feeding       *)
(*          thread of main.py, or any other foreign thread): it calls      *)
(*          submit_frame(), stop() and start().                            *)
(*   1..MaxWorkers   the threading.Thread objects start() creates, each    *)
(*          running _run_loop once.                                        *)
(* Every access to shared engine state is one step, so the threads         *)
(* interleave at the granularity of Python attribute reads and writes.     *)
(*                                                                         *)
(* Specifications: Spec (any use of the engine by the two threads),        *)
(* FairSpec, DeliverySpec and StopFairSpec (Spec under scheduling          *)
(* assumptions), FeedSpec (the composition of main.py: the app thread and  *)
(* feed_worker), MainSpec (main() from start to its final join, in both    *)
(* UI modes), ProcessSpec (one call of _process_frame on a raw model       *)
(* output) and ManagerSpec (with statements over ThreadManager,            *)
(* src/src/concurrency/thread_manager.py).                                 *)
(*                                                                         *)
(* Left abstract: the content of a frame (a frame is its submission        *)
(* number), the detection list inside a Success (its construction is       *)
(* ProcessSpec), the widgets process_results updates, and a loop that is   *)
(* closed while the worker still posts to it (the consumer's loop runs for *)
(* the whole behaviour).                                                   *)
(***************************************************************************)
EXTENDS Integers, Sequences, FiniteSets, TLC

\* ---------------------------------------------------------------- bounds
MaxFrames == 2      \* submit_frame calls in one behaviour
MaxWorkers == 2     \* Thread objects start() may create in one behaviour
MaxManaged == 2     \* ThreadManager objects in one behaviour

\* ------------------------------------------------------------- constants
NoFrame == 0        \* None in _frame_to_process / a cycle without a frame
NoThread == 0       \* None in _thread
LockFree == 0       \* _frame_lock not held
SubmitterHolds == -1 \* _frame_lock held by the thread inside submit_frame

Callers == {"ui", "aux"}
Workers == 1..MaxWorkers
Frames == 1..MaxFrames
Managed == 1..MaxManaged

\* asyncio.get_running_loop() succeeds only on the thread running the loop
HasRunningLoop(c) == c = "ui"

VARIABLES
    \* ---- InferenceEngine fields
    loop,               \* _loop: FALSE = None, TRUE = the consumer's loop
    stop_event,         \* _stop_event.is_set()
    started_event,      \* started_event.is_set()
    model,              \* _model is not None
    frame_to_process,   \* _frame_to_process: NoFrame or a frame
    frame_lock,         \* _frame_lock: LockFree, SubmitterHolds or a worker
    thread,             \* _thread: NoThread or a Thread object
    output_queue,       \* _output_queue (asyncio.Queue), head first
    \* ---- the event loop and the consumer
    callbacks,          \* the loop's ready callbacks put_nowait(item), FIFO
    latest_frame,       \* SiliconScopeApp.latest_frame
    \* ---- threads
    wpc,                \* wpc[w]: position of Thread w in _run_loop
    wframe,             \* wframe[w]: the local variable frame of _run_loop
    cpc,                \* cpc[c]: position of caller c inside an API call
    carg,               \* carg[c]: the frame argument / the thread being joined
    \* ---- history (not program state)
    nframes,            \* number of submit_frame calls so far
    overwritten,        \* frames replaced in the mailbox before being taken
    taken,              \* the takes of a frame, in order: [w, frame]
    handed,             \* the Outcomes handed to call_soon_threadsafe, in order
    observed,           \* the Outcomes get_nowait returned, in order
    loadres,            \* loadres[w]: "none", "ok" or "fail"
    restarted,          \* Threads created by a start() that was issued
                        \* while quiet after an earlier Thread, with no
                        \* stop() issued since
    quiet,              \* a stop() has returned leaving no thread alive and
                        \* no start() in progress, and no start() was issued
                        \* since
    \* ---- one call of _process_frame taken by itself
    results,            \* the raw output of the model: one sequence of rows
                        \* (res.boxes.data.tolist()) per result object
    detections,         \* what the call returned, or that it raised
    pfpc,               \* "idle": no such call, "call": inside it, "done"
    \* ---- ThreadManager objects, each with the Thread it manages
    mthread,            \* mthread[m]: "new", "alive" or "finished"
    mpc,                \* mpc[m]: position of the with statement using m
    mexc,               \* mexc[m]: the with body ended through an exception
    \* ---- main() and feed_worker
    mode,               \* "tui" or "gui": the --ui argument
    main_stop_event,    \* stop_event of main(), a threading.Event
    resume_event,       \* pause_event of main(), resume_event of the app
    mainpc,             \* position of the main thread in main()
    feedpc,             \* position of feed_worker in its for loop
    fed                 \* number of frames the generator has yielded

engineVars == <<loop, stop_event, started_event, model, frame_to_process,
                frame_lock, thread, output_queue>>
loopVars == <<callbacks, latest_frame>>
threadVars == <<wpc, wframe, cpc, carg>>
histVars == <<nframes, overwritten, taken, handed, observed, loadres,
              restarted, quiet>>
pfVars == <<results, detections, pfpc>>
tmVars == <<mthread, mpc, mexc>>
mainVars == <<mode, main_stop_event, resume_event, mainpc, feedpc, fed>>
vars == <<engineVars, loopVars, threadVars, histVars, pfVars, tmVars,
          mainVars>>

\* threading.Thread.is_alive(): started and _run_loop has not returned
IsAlive(w) == w # NoThread /\ wpc[w] \notin {"unborn", "new", "dead"}

\* main() is not part of the behaviours: its state is the one of lines
\* 65-69 and stays so
NoMain ==
    /\ mode = "tui"
    /\ main_stop_event = FALSE
    /\ resume_event = TRUE
    /\ mainpc = "none"
    /\ feedpc = "none"
    /\ fed = 0

Init ==
    /\ loop = FALSE
    /\ stop_event = FALSE
    /\ started_event = FALSE
    /\ model = FALSE
    /\ frame_to_process = NoFrame
    /\ frame_lock = LockFree
    /\ thread = NoThread
    /\ output_queue = <<>>
    /\ callbacks = <<>>
    /\ latest_frame = NoFrame
    /\ wpc = [w \in Workers |-> "unborn"]
    /\ wframe = [w \in Workers |-> NoFrame]
    /\ cpc = [c \in Callers |-> "idle"]
    /\ carg = [c \in Callers |-> 0]
    /\ nframes = 0
    /\ overwritten = {}
    /\ taken = <<>>
    /\ handed = <<>>
    /\ observed = <<>>
    /\ loadres = [w \in Workers |-> "none"]
    /\ restarted = {}
    /\ quiet = FALSE
    /\ results = <<>>
    /\ detections = <<>>
    /\ pfpc = "idle"
    /\ mthread = [m \in Managed |-> "new"]
    /\ mpc = [m \in Managed |-> "idle"]
    /\ mexc = [m \in Managed |-> FALSE]
    /\ NoMain

\* ------------------------------------------------------------------------
\* Outcomes.  The code puts a tuple (frame, results) or a str on the queue;
\* id, worker and cycle are history fields naming the object, the thread
\* that built it and the frame of the cycle that built it.
\* a plausible slip: the Success carries another frame object than the one
\* the cycle took
SuccessOfOtherFrame(n, w, f) ==
    [id |-> n, kind |-> "Success", frame |-> f + 1, msg |-> "",
     worker |-> w, cycle |-> f]

Success(n, w, f) ==
    [id |-> n, kind |-> "Success", frame |-> f, msg |-> "",
     worker |-> w, cycle |-> f]
Failure(n, w, f, m) ==
    [id |-> n, kind |-> "Failure", frame |-> NoFrame, msg |-> m,
     worker |-> w, cycle |-> f]

\* a plausible slip: the Outcome is posted in the try block and once more
\* after it
DeliverTwice(item) ==
    /\ callbacks' = callbacks \o <<item, item>>
    /\ handed' = handed \o <<item, item>>

\* a plausible slip: the Outcome is built but never posted to the loop
DeliverDropped(item) ==
    /\ callbacks' = callbacks
    /\ handed' = Append(handed, item)

\* self._loop.call_soon_threadsafe(self._output_queue.put_nowait, item)
Deliver(item) ==
    /\ callbacks' = Append(callbacks, item)
    /\ handed' = Append(handed, item)

\* ------------------------------------------------------------------------
\* InferenceEngine.start(), one step per access to shared state

InStart(c) == cpc[c] \in {"start_assign", "start_spawn", "start_ready"}
InStop(c) == cpc[c] \in {"stop_check", "stop_join", "stop_wait"}

\* a plausible slip: start() without its guard
NeverRunning == FALSE

\* a plausible slip: the guard looks only for a worker inside its loop
RunningOnlyInLoop ==
    /\ thread # NoThread
    /\ wpc[thread] \in {"loop", "lock", "locked", "infer", "idle"}

\* a plausible slip: the guard forgets is_alive()
RunningIfHandle == thread # NoThread

\* line 130: self._thread is not None and self._thread.is_alive()
AlreadyRunning == thread # NoThread /\ IsAlive(thread)

\* the Thread object line 141 creates next
FreshThread ==
    CHOOSE w \in Workers :
        wpc[w] = "unborn" /\ \A v \in Workers : wpc[v] = "unborn" => w <= v

\* line 130-139: the guard of start(), then asyncio.get_running_loop() or
\* RuntimeError
StartCall(c) ==
    /\ cpc[c] = "idle"
    /\ (HasRunningLoop(c) /\ ~AlreadyRunning) =>
            \E w \in Workers : wpc[w] = "unborn"
    /\ quiet' = FALSE
    /\ IF AlreadyRunning
       THEN /\ cpc' = [cpc EXCEPT ![c] = "start_return"]
            /\ UNCHANGED <<loop, restarted>>
       ELSE IF HasRunningLoop(c)
       THEN /\ loop' = TRUE
            /\ cpc' = [cpc EXCEPT ![c] = "start_assign"]
            /\ restarted' = IF /\ quiet
                                /\ thread # NoThread
                                /\ \A d \in Callers : ~InStop(d)
                             THEN restarted \cup {FreshThread}
                             ELSE restarted
       ELSE /\ cpc' = [cpc EXCEPT ![c] = "start_raise"]
            /\ UNCHANGED <<loop, restarted>>
    /\ UNCHANGED <<pfVars, tmVars, mainVars>>
    /\ UNCHANGED <<stop_event, started_event, model, frame_to_process,
                   frame_lock, thread, output_queue, loopVars, wpc, wframe,
                   carg, nframes, overwritten, taken, handed, observed,
                   loadres>>

\* line 131 (return) and line 136 / line 149 (RuntimeError): the call ends
\* without having changed anything more
CallEnds(c) ==
    /\ cpc[c] \in {"start_return", "start_raise", "stop_raise"}
    /\ cpc' = [cpc EXCEPT ![c] = "idle"]
    /\ UNCHANGED <<pfVars, tmVars, mainVars>>
    /\ UNCHANGED <<engineVars, loopVars, wpc, wframe, carg, histVars>>

\* line 141: self._thread = threading.Thread(target=self._run_loop, ...)
StartAssign(c) ==
    /\ cpc[c] = "start_assign"
    /\ thread' = FreshThread
    /\ wpc' = [wpc EXCEPT ![FreshThread] = "new"]
    /\ cpc' = [cpc EXCEPT ![c] = "start_spawn"]
    /\ UNCHANGED <<pfVars, tmVars, mainVars>>
    /\ UNCHANGED <<loop, stop_event, started_event, model, frame_to_process,
                   frame_lock, output_queue, loopVars, wframe, carg, nframes,
                   overwritten, taken, handed, observed, loadres, restarted,
                   quiet>>

\* line 142: self._thread.start()
StartSpawn(c) ==
    /\ cpc[c] = "start_spawn"
    /\ thread # NoThread
    /\ wpc[thread] = "new"
    /\ wpc' = [wpc EXCEPT ![thread] = "run"]
    /\ cpc' = [cpc EXCEPT ![c] = "start_ready"]
    /\ UNCHANGED <<pfVars, tmVars, mainVars>>
    /\ UNCHANGED <<engineVars, loopVars, wframe, carg, histVars>>

\* line 143: self.started_event.set()
StartSetReady(c) ==
    /\ cpc[c] = "start_ready"
    /\ started_event' = TRUE
    /\ cpc' = [cpc EXCEPT ![c] = "idle"]
    /\ UNCHANGED <<pfVars, tmVars, mainVars>>
    /\ UNCHANGED <<loop, stop_event, model, frame_to_process, frame_lock,
                   thread, output_queue, loopVars, wpc, wframe, carg, nframes,
                   overwritten, taken, handed, observed, loadres, restarted,
                   quiet>>

\* ------------------------------------------------------------------------
\* InferenceEngine.stop()

\* the history a returning stop() leaves
StopReturns(c) ==
    /\ cpc' = [cpc EXCEPT ![c] = "idle"]
    /\ quiet' = (/\ \A w \in Workers : wpc[w] \in {"unborn", "dead"}
                 /\ \A d \in Callers : ~InStart(d))

\* line 147: self._stop_event.set()
StopCall(c) ==
    /\ cpc[c] = "idle"
    /\ stop_event' = TRUE
    /\ cpc' = [cpc EXCEPT ![c] = "stop_check"]
    /\ restarted' = {}
    /\ UNCHANGED <<pfVars, tmVars, mainVars>>
    /\ UNCHANGED <<loop, started_event, model, frame_to_process, frame_lock,
                   thread, output_queue, loopVars, wpc, wframe, carg, nframes,
                   overwritten, taken, handed, observed, loadres, quiet>>

\* line 148: if self._thread is not None
StopCheck(c) ==
    /\ cpc[c] = "stop_check"
    /\ IF thread = NoThread
       THEN StopReturns(c)
       ELSE /\ cpc' = [cpc EXCEPT ![c] = "stop_join"]
            /\ UNCHANGED quiet
    /\ UNCHANGED <<pfVars, tmVars, mainVars>>
    /\ UNCHANGED <<engineVars, loopVars, wpc, wframe, carg, nframes,
                   overwritten, taken, handed, observed, loadres, restarted>>

\* line 149: self._thread.join() reads the handle and begins to wait;
\* Thread.join() raises RuntimeError on a thread that was not started
StopJoinBegin(c) ==
    /\ cpc[c] = "stop_join"
    /\ thread # NoThread
    /\ IF wpc[thread] = "new"
       THEN /\ cpc' = [cpc EXCEPT ![c] = "stop_raise"]
            /\ UNCHANGED carg
       ELSE /\ cpc' = [cpc EXCEPT ![c] = "stop_wait"]
            /\ carg' = [carg EXCEPT ![c] = thread]
    /\ UNCHANGED <<pfVars, tmVars, mainVars>>
    /\ UNCHANGED <<engineVars, loopVars, wpc, wframe, nframes, overwritten,
                   taken, handed, observed, loadres, restarted, quiet>>

\* a plausible slip: the wait does not end for a thread that has terminated
JoinBlocks(t) == FALSE

\* a plausible slip: stop() does not wait for the thread
JoinNoWait(t) == TRUE

\* Thread.join() returns once the joined thread has terminated
JoinDone(t) == ~IsAlive(t)

StopJoinEnd(c) ==
    /\ cpc[c] = "stop_wait"
    /\ JoinDone(carg[c])
    /\ StopReturns(c)
    /\ carg' = [carg EXCEPT ![c] = 0]
    /\ UNCHANGED <<pfVars, tmVars, mainVars>>
    /\ UNCHANGED <<engineVars, loopVars, wpc, wframe, nframes, overwritten,
                   taken, handed, observed, loadres, restarted>>

\* ------------------------------------------------------------------------
\* InferenceEngine.submit_frame(frame)

\* line 248: with self._frame_lock (acquire)
SubmitCall(c) ==
    /\ cpc[c] = "idle"
    /\ c = "aux"
    /\ nframes < MaxFrames
    /\ frame_lock = LockFree
    /\ frame_lock' = SubmitterHolds
    /\ nframes' = nframes + 1
    /\ carg' = [carg EXCEPT ![c] = nframes + 1]
    /\ cpc' = [cpc EXCEPT ![c] = "submit_locked"]
    /\ UNCHANGED <<pfVars, tmVars, mainVars>>
    /\ UNCHANGED <<loop, stop_event, started_event, model, frame_to_process,
                   thread, output_queue, loopVars, wpc, wframe, overwritten,
                   taken, handed, observed, loadres, restarted, quiet>>

\* a plausible slip: a frame is accepted only while a worker is running
StoredOnlyWhenRunning(pending, f) == IF AlreadyRunning THEN f ELSE pending

\* a plausible slip: a pending frame is kept and the new one dropped
StoredKeepsPending(pending, f) == IF pending # NoFrame THEN pending ELSE f

\* line 249: the value submit_frame leaves in the mailbox
Stored(pending, f) == f

\* line 249 and the release of the lock
SubmitStore(c) ==
    /\ cpc[c] = "submit_locked"
    /\ frame_to_process' = Stored(frame_to_process, carg[c])
    /\ frame_lock' = LockFree
    /\ overwritten' = IF frame_to_process # NoFrame
                       THEN overwritten \cup {frame_to_process}
                       ELSE overwritten
    /\ cpc' = [cpc EXCEPT ![c] = "idle"]
    /\ carg' = [carg EXCEPT ![c] = 0]
    /\ UNCHANGED <<pfVars, tmVars, mainVars>>
    /\ UNCHANGED <<loop, stop_event, started_event, model, thread,
                   output_queue, loopVars, wpc, wframe, nframes, taken,
                   handed, observed, loadres, restarted, quiet>>

\* ------------------------------------------------------------------------
\* InferenceEngine._run_loop, run by Thread w

\* line 159-161: if not self._loop: return
WorkerEntry(w) ==
    /\ wpc[w] = "run"
    /\ wpc' = [wpc EXCEPT ![w] = IF loop THEN "loading" ELSE "dead"]
    /\ UNCHANGED <<pfVars, tmVars, mainVars>>
    /\ UNCHANGED <<engineVars, loopVars, wframe, cpc, carg, histVars>>

\* line 164-170 without an exception: YOLO(...) and the warm-up inference
LoadOk(w) ==
    /\ wpc[w] = "loading"
    /\ model' = TRUE
    /\ loadres' = [loadres EXCEPT ![w] = "ok"]
    /\ wpc' = [wpc EXCEPT ![w] = "loop"]
    /\ UNCHANGED <<pfVars, tmVars, mainVars>>
    /\ UNCHANGED <<loop, stop_event, started_event, frame_to_process,
                   frame_lock, thread, output_queue, loopVars, wframe, cpc,
                   carg, nframes, overwritten, taken, handed, observed,
                   restarted, quiet>>

\* a plausible slip: the return of line 176 is missing
LoadFailureFallsThrough == "loop"

\* where _run_loop goes after the except branch of line 171-176
AfterLoadFailure == "dead"

\* line 164-176 with an exception: raised by YOLO(...) (the model field keeps
\* its value) or by the warm-up call (the model field is already assigned)
LoadFail(w) ==
    /\ wpc[w] = "loading"
    /\ \E inWarmup \in BOOLEAN : model' = IF inWarmup THEN TRUE ELSE model
    /\ loadres' = [loadres EXCEPT ![w] = "fail"]
    /\ Deliver(Failure(Len(handed) + 1, w, NoFrame, "Failed to load model"))
    /\ wpc' = [wpc EXCEPT ![w] = AfterLoadFailure]
    /\ UNCHANGED <<pfVars, tmVars, mainVars>>
    /\ UNCHANGED <<loop, stop_event, started_event, frame_to_process,
                   frame_lock, thread, output_queue, latest_frame, wframe,
                   cpc, carg, nframes, overwritten, taken, observed,
                   restarted, quiet>>

\* a plausible slip: the loop condition does not look at the stop flag
LoopNeverChecks(w) ==
    /\ wpc[w] = "loop"
    /\ wpc' = [wpc EXCEPT ![w] = "lock"]
    /\ wframe' = [wframe EXCEPT ![w] = NoFrame]
    /\ UNCHANGED <<pfVars, tmVars, mainVars>>
    /\ UNCHANGED <<engineVars, loopVars, cpc, carg, histVars>>

\* line 178: while not self._stop_event.is_set()
LoopCheck(w) ==
    /\ wpc[w] = "loop"
    /\ wpc' = [wpc EXCEPT ![w] = IF stop_event THEN "dead" ELSE "lock"]
    /\ wframe' = [wframe EXCEPT ![w] = NoFrame]
    /\ UNCHANGED <<pfVars, tmVars, mainVars>>
    /\ UNCHANGED <<engineVars, loopVars, cpc, carg, histVars>>

\* line 180: with self._frame_lock (acquire)
Acquire(w) ==
    /\ wpc[w] = "lock"
    /\ frame_lock = LockFree
    /\ frame_lock' = w
    /\ wpc' = [wpc EXCEPT ![w] = "locked"]
    /\ UNCHANGED <<pfVars, tmVars, mainVars>>
    /\ UNCHANGED <<loop, stop_event, started_event, model, frame_to_process,
                   thread, output_queue, loopVars, wframe, cpc, carg,
                   histVars>>

\* a plausible slip: the take does not clear the slot
AfterTakeKeeps(pending) == pending

\* line 183: what the take leaves in the mailbox
AfterTake(pending) == NoFrame

\* a plausible slip: the with block of line 180 extends over the call of
\* _process_frame, so the lock is still held when a frame was taken
TakeHoldingLock(w) ==
    /\ wpc[w] = "locked"
    /\ wframe' = [wframe EXCEPT ![w] = frame_to_process]
    /\ frame_to_process' = NoFrame
    /\ frame_lock' = IF frame_to_process # NoFrame THEN w ELSE LockFree
    /\ taken' = IF frame_to_process # NoFrame
                 THEN Append(taken, [w |-> w, frame |-> frame_to_process])
                 ELSE taken
    /\ wpc' = [wpc EXCEPT ![w] =
                 IF frame_to_process # NoFrame THEN "infer" ELSE "idle"]
    /\ UNCHANGED <<pfVars, tmVars, mainVars>>
    /\ UNCHANGED <<loop, stop_event, started_event, model, thread,
                   output_queue, loopVars, cpc, carg, nframes, overwritten,
                   handed, observed, loadres, restarted, quiet>>

\* line 181-185: the take, the release of the lock and the branch on frame
Take(w) ==
    /\ wpc[w] = "locked"
    /\ wframe' = [wframe EXCEPT ![w] = frame_to_process]
    /\ frame_to_process' = IF frame_to_process # NoFrame
                            THEN AfterTake(frame_to_process)
                            ELSE frame_to_process
    /\ frame_lock' = LockFree
    /\ taken' = IF frame_to_process # NoFrame
                 THEN Append(taken, [w |-> w, frame |-> frame_to_process])
                 ELSE taken
    /\ wpc' = [wpc EXCEPT ![w] =
                 IF frame_to_process # NoFrame THEN "infer" ELSE "idle"]
    /\ UNCHANGED <<pfVars, tmVars, mainVars>>
    /\ UNCHANGED <<loop, stop_event, started_event, model, thread,
                   output_queue, loopVars, cpc, carg, nframes, overwritten,
                   handed, observed, loadres, restarted, quiet>>

\* line 186-190: _process_frame returned and the result is handed over
InferOk(w) ==
    /\ wpc[w] = "infer"
    /\ Deliver(Success(Len(handed) + 1, w, wframe[w]))
    /\ wpc' = [wpc EXCEPT ![w] = "loop"]
    /\ UNCHANGED <<pfVars, tmVars, mainVars>>
    /\ UNCHANGED <<engineVars, latest_frame, wframe, cpc, carg, nframes,
                   overwritten, taken, observed, loadres, restarted, quiet>>

\* a plausible slip: a processing failure ends the thread
ProcessFailureFatal == "dead"

\* where _run_loop goes after the except branch of line 191-195
AfterProcessFailure == "loop"

\* line 191-195: _process_frame raised
InferFail(w) ==
    /\ wpc[w] = "infer"
    /\ Deliver(Failure(Len(handed) + 1, w, wframe[w], "Failed to process frame"))
    /\ wpc' = [wpc EXCEPT ![w] = AfterProcessFailure]
    /\ UNCHANGED <<pfVars, tmVars, mainVars>>
    /\ UNCHANGED <<engineVars, latest_frame, wframe, cpc, carg, nframes,
                   overwritten, taken, observed, loadres, restarted, quiet>>

\* line 196-198: self._stop_event.wait(0.01) returns, by timeout or by the flag
IdleWait(w) ==
    /\ wpc[w] = "idle"
    /\ wpc' = [wpc EXCEPT ![w] = "loop"]
    /\ UNCHANGED <<pfVars, tmVars, mainVars>>
    /\ UNCHANGED <<engineVars, loopVars, wframe, cpc, carg, histVars>>

\* ------------------------------------------------------------------------
\* The event loop of the "ui" thread

\* a plausible slip: the loop runs the callback posted last
PopNewest(q) == [item |-> q[Len(q)], rest |-> SubSeq(q, 1, Len(q) - 1)]

\* call_soon_threadsafe: the loop runs the posted callbacks in posting order
PopCallback(q) == [item |-> Head(q), rest |-> Tail(q)]

\* the loop runs one callback posted by the worker: put_nowait(item)
RunCallback ==
    /\ cpc["ui"] = "idle"
    /\ callbacks # <<>>
    /\ output_queue' = Append(output_queue, PopCallback(callbacks).item)
    /\ callbacks' = PopCallback(callbacks).rest
    /\ UNCHANGED <<pfVars, tmVars, mainVars>>
    /\ UNCHANGED <<loop, stop_event, started_event, model, frame_to_process,
                   frame_lock, thread, latest_frame, threadVars, histVars>>

\* a plausible slip: a poll that finds the queue empty forgets the frame
\* kept for the snapshot
ProcessResultsResets ==
    /\ cpc["ui"] = "idle"
    /\ IF output_queue = <<>>
       THEN latest_frame' = NoFrame /\ UNCHANGED <<output_queue, observed>>
       ELSE /\ output_queue' = Tail(output_queue)
            /\ observed' = Append(observed, Head(output_queue))
            /\ latest_frame' = IF Head(output_queue).kind = "Success"
                                THEN Head(output_queue).frame
                                ELSE latest_frame
    /\ UNCHANGED <<pfVars, tmVars, mainVars>>
    /\ UNCHANGED <<loop, stop_event, started_event, model, frame_to_process,
                   frame_lock, thread, callbacks, threadVars, nframes,
                   overwritten, taken, handed, loadres, restarted, quiet>>

\* SiliconScopeApp.process_results: one get_nowait per poll
ProcessResults ==
    /\ cpc["ui"] = "idle"
    /\ IF output_queue = <<>>
       THEN UNCHANGED <<output_queue, observed, latest_frame>>
       ELSE /\ output_queue' = Tail(output_queue)
            /\ observed' = Append(observed, Head(output_queue))
            /\ latest_frame' = IF Head(output_queue).kind = "Success"
                                THEN Head(output_queue).frame
                                ELSE latest_frame
    /\ UNCHANGED <<pfVars, tmVars, mainVars>>
    /\ UNCHANGED <<loop, stop_event, started_event, model, frame_to_process,
                   frame_lock, thread, callbacks, threadVars, nframes,
                   overwritten, taken, handed, loadres, restarted, quiet>>

\* app.py line 128: fps_tracker gets one time stamp per polled Success
fps_tracker == SelectSeq(observed, LAMBDA x : x.kind = "Success")

\* app.py line 119-126: the log widget gets one entry per polled str item
\* (the lines written for non-empty detection lists are left abstract)
log_widget == SelectSeq(observed, LAMBDA x : x.kind = "Failure")

\* ------------------------------------------------------------------------
Next ==
    \/ \E c \in Callers :
        \/ StartCall(c) \/ CallEnds(c) \/ StartAssign(c)
        \/ StartSpawn(c) \/ StartSetReady(c)
        \/ StopCall(c) \/ StopCheck(c) \/ StopJoinBegin(c) \/ StopJoinEnd(c)
        \/ SubmitCall(c) \/ SubmitStore(c)
    \/ \E w \in Workers :
        \/ WorkerEntry(w) \/ LoadOk(w) \/ LoadFail(w) \/ LoopCheck(w)
        \/ Acquire(w) \/ Take(w) \/ InferOk(w) \/ InferFail(w) \/ IdleWait(w)
    \/ RunCallback
    \/ ProcessResults

Spec == Init /\ [][Next]_vars

\* Scheduling: a started Thread keeps running (every model call returns or
\* raises, and a lock that stays free is acquired), and a thread inside
\* submit_frame leaves it.
WorkerStep(w) ==
    \/ WorkerEntry(w) \/ LoadOk(w) \/ LoadFail(w) \/ LoopCheck(w)
    \/ Acquire(w) \/ Take(w) \/ InferOk(w) \/ InferFail(w) \/ IdleWait(w)

Fairness ==
    /\ \A w \in Workers : WF_vars(WorkerStep(w))
    /\ \A c \in Callers : WF_vars(SubmitStore(c))

FairSpec == Spec /\ Fairness

\* Scheduling of the consumer's thread: a start() or stop() call it is
\* inside goes on (a join waits for the worker), and between its calls the
\* loop keeps running the posted callbacks and the poll timer of
\* set_interval(1 / 30, process_results) keeps firing.
UiCallStep ==
    \/ CallEnds("ui") \/ StartAssign("ui") \/ StartSpawn("ui")
    \/ StartSetReady("ui")
    \/ StopCheck("ui") \/ StopJoinBegin("ui") \/ StopJoinEnd("ui")

ConsumerFairness ==
    /\ WF_vars(UiCallStep)
    /\ SF_vars(RunCallback)
    /\ SF_vars(ProcessResults)

DeliverySpec == Spec /\ Fairness /\ ConsumerFairness

\* Scheduling of a thread inside stop(): it goes on from line 147 to the
\* check of line 148 and to the join of line 149, and the join returns
\* once the joined Thread has terminated.
StopProgress(c) == StopCheck(c) \/ StopJoinBegin(c) \/ StopJoinEnd(c)

StopFairSpec ==
    Spec /\ Fairness /\ \A c \in Callers : WF_vars(StopProgress(c))

\* ------------------------------------------------------------------------
\* The program main() composes: the thread "ui" runs the app, which calls
\* start() in on_mount and stop() in on_unmount, and the thread "aux" runs
\* feed_worker, which waits for started_event and then submits the frames
\* of its generator (at most MaxFrames of them in one behaviour).

\* main.py line 75-80: the feed thread is started before the app runs
FeedInit ==
    /\ loop = FALSE
    /\ stop_event = FALSE
    /\ started_event = FALSE
    /\ model = FALSE
    /\ frame_to_process = NoFrame
    /\ frame_lock = LockFree
    /\ thread = NoThread
    /\ output_queue = <<>>
    /\ callbacks = <<>>
    /\ latest_frame = NoFrame
    /\ wpc = [w \in Workers |-> "unborn"]
    /\ wframe = [w \in Workers |-> NoFrame]
    /\ cpc = [c \in Callers |-> IF c = "aux" THEN "feed_wait" ELSE "idle"]
    /\ carg = [c \in Callers |-> 0]
    /\ nframes = 0
    /\ overwritten = {}
    /\ taken = <<>>
    /\ handed = <<>>
    /\ observed = <<>>
    /\ loadres = [w \in Workers |-> "none"]
    /\ restarted = {}
    /\ quiet = FALSE
    /\ results = <<>>
    /\ detections = <<>>
    /\ pfpc = "idle"
    /\ mthread = [m \in Managed |-> "new"]
    /\ mpc = [m \in Managed |-> "idle"]
    /\ mexc = [m \in Managed |-> FALSE]
    /\ NoMain

\* a plausible slip: feed_worker does not wait for the engine
FeedStartsAtOnce == TRUE

\* main.py line 29: engine.started_event.wait() returns
FeedMayStart == started_event

\* main.py line 29: feed_worker passes its wait and enters its loop
FeedWait ==
    /\ cpc["aux"] = "feed_wait"
    /\ FeedMayStart
    /\ cpc' = [cpc EXCEPT !["aux"] = "idle"]
    /\ UNCHANGED <<pfVars, tmVars, mainVars>>
    /\ UNCHANGED <<engineVars, loopVars, wpc, wframe, carg, histVars>>

FeedNext ==
    \/ StartCall("ui") \/ CallEnds("ui") \/ StartAssign("ui")
    \/ StartSpawn("ui") \/ StartSetReady("ui")
    \/ StopCall("ui") \/ StopCheck("ui") \/ StopJoinBegin("ui")
    \/ StopJoinEnd("ui")
    \/ FeedWait \/ SubmitCall("aux") \/ SubmitStore("aux")
    \/ \E w \in Workers :
        \/ WorkerEntry(w) \/ LoadOk(w) \/ LoadFail(w) \/ LoopCheck(w)
        \/ Acquire(w) \/ Take(w) \/ InferOk(w) \/ InferFail(w) \/ IdleWait(w)
    \/ RunCallback
    \/ ProcessResults

FeedSpec == FeedInit /\ [][FeedNext]_vars

\* ------------------------------------------------------------------------
\* main() as a whole (main.py line 43-102) with feed_worker (line 20-40) and,
\* in tui mode, the app (src/src/tui/app.py): the thread "ui" is the main
\* thread, the thread "aux" is feed_thread.

\* main.py line 65-80: the events are created, pause_event is set and the
\* feed thread is started; --ui is "tui" or "gui"
MainInit ==
    /\ loop = FALSE
    /\ stop_event = FALSE
    /\ started_event = FALSE
    /\ model = FALSE
    /\ frame_to_process = NoFrame
    /\ frame_lock = LockFree
    /\ thread = NoThread
    /\ output_queue = <<>>
    /\ callbacks = <<>>
    /\ latest_frame = NoFrame
    /\ wpc = [w \in Workers |-> "unborn"]
    /\ wframe = [w \in Workers |-> NoFrame]
    /\ cpc = [c \in Callers |-> IF c = "aux" THEN "feed_wait" ELSE "idle"]
    /\ carg = [c \in Callers |-> 0]
    /\ nframes = 0
    /\ overwritten = {}
    /\ taken = <<>>
    /\ handed = <<>>
    /\ observed = <<>>
    /\ loadres = [w \in Workers |-> "none"]
    /\ restarted = {}
    /\ quiet = FALSE
    /\ results = <<>>
    /\ detections = <<>>
    /\ pfpc = "idle"
    /\ mthread = [m \in Managed |-> "new"]
    /\ mpc = [m \in Managed |-> "idle"]
    /\ mexc = [m \in Managed |-> FALSE]
    /\ mode \in {"tui", "gui"}
    /\ main_stop_event = FALSE
    /\ resume_event = TRUE
    /\ mainpc = "app"
    /\ feedpc = "next"
    /\ fed = 0

\* app.py line 54-58: on_mount calls engine.start(), once
OnMount ==
    /\ mode = "tui"
    /\ mainpc = "app"
    /\ thread = NoThread
    /\ StartCall("ui")

\* app.py line 95-98: action_toggle_pause clears or sets resume_event
TogglePause ==
    /\ mode = "tui"
    /\ mainpc = "app"
    /\ cpc["ui"] = "idle"
    /\ thread # NoThread
    /\ ~stop_event
    /\ resume_event' = ~resume_event
    /\ UNCHANGED <<mode, main_stop_event, mainpc, feedpc, fed>>
    /\ UNCHANGED <<engineVars, loopVars, threadVars, histVars, pfVars, tmVars>>

\* app.py line 61-64: the app quits and on_unmount calls engine.stop()
OnUnmount ==
    /\ mode = "tui"
    /\ mainpc = "app"
    /\ cpc["ui"] = "idle"
    /\ thread # NoThread
    /\ ~stop_event
    /\ StopCall("ui")

\* app.py line 66: self.resume_event.set(), after which on_unmount ends and
\* app.run() (main.py line 86) returns
AppReturns ==
    /\ mode = "tui"
    /\ mainpc = "app"
    /\ cpc["ui"] = "idle"
    /\ stop_event
    /\ resume_event' = TRUE
    /\ mainpc' = "set_stop"
    /\ UNCHANGED <<mode, main_stop_event, feedpc, fed>>
    /\ UNCHANGED <<engineVars, loopVars, threadVars, histVars, pfVars, tmVars>>

\* main.py line 94-98: in gui mode the main thread loops on
\* feed_thread.join(0.1) until KeyboardInterrupt; nothing starts the engine
Interrupt ==
    /\ mode = "gui"
    /\ mainpc = "app"
    /\ mainpc' = "set_stop"
    /\ UNCHANGED <<mode, main_stop_event, resume_event, feedpc, fed>>
    /\ UNCHANGED <<engineVars, loopVars, threadVars, histVars, pfVars, tmVars>>

\* main.py line 101: stop_event.set()
MainSetStop ==
    /\ mainpc = "set_stop"
    /\ main_stop_event' = TRUE
    /\ mainpc' = "join"
    /\ UNCHANGED <<mode, resume_event, feedpc, fed>>
    /\ UNCHANGED <<engineVars, loopVars, threadVars, histVars, pfVars, tmVars>>

\* main.py line 102: feed_thread.join() returns once feed_worker has returned
MainJoin ==
    /\ mainpc = "join"
    /\ feedpc = "done"
    /\ mainpc' = "end"
    /\ UNCHANGED <<mode, main_stop_event, resume_event, feedpc, fed>>
    /\ UNCHANGED <<engineVars, loopVars, threadVars, histVars, pfVars, tmVars>>

\* main.py line 31: the for statement asks the generator for a frame; the
\* generator yields one or ends (camera.py line 18-20 and 25-27), and it
\* yields at most MaxFrames frames in one behaviour
FeedNextFrame ==
    /\ feedpc = "next"
    /\ cpc["aux"] = "idle"
    /\ \/ /\ fed < MaxFrames
          /\ fed' = fed + 1
          /\ feedpc' = "check"
       \/ /\ feedpc' = "done"
          /\ UNCHANGED fed
    /\ UNCHANGED <<mode, main_stop_event, resume_event, mainpc>>
    /\ UNCHANGED <<engineVars, loopVars, threadVars, histVars, pfVars, tmVars>>

\* main.py line 32-33: if stop_event.is_set(): break
FeedCheckStop ==
    /\ feedpc = "check"
    /\ feedpc' = IF main_stop_event THEN "done" ELSE "resume"
    /\ UNCHANGED <<mode, main_stop_event, resume_event, mainpc, fed>>
    /\ UNCHANGED <<engineVars, loopVars, threadVars, histVars, pfVars, tmVars>>

\* main.py line 36: resume_event.wait() returns
FeedResumeWait ==
    /\ feedpc = "resume"
    /\ resume_event
    /\ feedpc' = "submit"
    /\ UNCHANGED <<mode, main_stop_event, resume_event, mainpc, fed>>
    /\ UNCHANGED <<engineVars, loopVars, threadVars, histVars, pfVars, tmVars>>

\* main.py line 38: engine.submit_frame(frame) with the frame just yielded
FeedSubmit ==
    /\ feedpc = "submit"
    /\ nframes < fed
    /\ SubmitCall("aux")

\* main.py line 40: time.sleep(0.01), then the next turn of the loop
FeedSleep ==
    /\ feedpc = "submit"
    /\ nframes = fed
    /\ cpc["aux"] = "idle"
    /\ feedpc' = "next"
    /\ UNCHANGED <<mode, main_stop_event, resume_event, mainpc, fed>>
    /\ UNCHANGED <<engineVars, loopVars, threadVars, histVars, pfVars, tmVars>>

FeedStep ==
    \/ FeedWait \/ FeedNextFrame \/ FeedCheckStop \/ FeedResumeWait
    \/ FeedSubmit \/ SubmitStore("aux") \/ FeedSleep

MainStep ==
    \/ OnMount \/ OnUnmount \/ TogglePause \/ AppReturns \/ Interrupt
    \/ MainSetStop \/ MainJoin
    \/ StartAssign("ui") \/ StartSpawn("ui") \/ StartSetReady("ui")
    \/ StopCheck("ui") \/ StopJoinBegin("ui") \/ StopJoinEnd("ui")

MainNext ==
    \/ MainStep
    \/ FeedStep
    \/ \E w \in Workers :
        \/ WorkerEntry(w) \/ LoadOk(w) \/ LoadFail(w) \/ LoopCheck(w)
        \/ Acquire(w) \/ Take(w) \/ InferOk(w) \/ InferFail(w) \/ IdleWait(w)
    \/ RunCallback
    \/ ProcessResults

\* Scheduling: the worker and the feed thread keep running, a call of the
\* main thread goes on, and after the app has returned the main thread
\* goes on to line 101 and 102.  When the user quits or interrupts, and
\* whether the pause key is pressed, is left open.
MainFairness ==
    /\ \A w \in Workers : WF_vars(WorkerStep(w))
    /\ WF_vars(FeedStep)
    /\ WF_vars(UiCallStep)
    /\ WF_vars(AppReturns \/ MainSetStop \/ MainJoin)

MainSpec == MainInit /\ [][MainNext]_vars /\ MainFairness

\* ------------------------------------------------------------------------
\* InferenceEngine._process_frame taken by itself: the conversion of the raw
\* output of the model into the detection list.  A number stands for a
\* float in tenths (25 is 2.5); a row is the sequence of its fields.

MaxRows == 2        \* rows of one result object

FieldCount == 6     \* line 225: the field count of a well-formed row

\* self._model.names of the loaded model
names == (1 :> "chip") @@ (2 :> "cat")

\* line 234: self._model.names.get(class_id, "Unknown")
NamesGet(class_id) ==
    IF class_id \in DOMAIN names THEN names[class_id] ELSE "Unknown"

\* line 229: int(class_id_float), truncation of a non-negative float
IntOf(x) == x \div 10

\* rows of 5, 6 and 7 fields; the coordinates differ from each other, the
\* confidence is 0.9 and the class field is 1.0, 2.5 or 7.0 (a class the
\* model has no name for)
RowOf(n, confidence, cls) ==
    [i \in 1..n |-> CASE i = 5 -> confidence
                      [] i = 6 -> cls
                      [] OTHER -> 100 * i]
RowSet ==
    {RowOf(n, 9, cls) :
        n \in (FieldCount - 1)..(FieldCount + 1), cls \in {10, 25, 70}}

\* res.boxes.data.tolist() of one result object
RowLists == UNION {[1..n -> RowSet] : n \in 0..MaxRows}

\* the model returns one result object per image, here one or two
ResultLists == {<<r>> : r \in RowLists} \cup (RowLists \X RowLists)

\* a plausible slip: only rows that are too short are skipped
TooShort(row) == Len(row) < FieldCount

\* line 225: if len(row) != 6: continue
Malformed(row) == Len(row) # FieldCount

\* line 231-238: DetectionResult(box=..., class_id=..., class_name=...,
\* confidence=...)
DetectionResult(row) ==
    [box |-> <<row[1], row[2], row[3], row[4]>>,
     class_id |-> IntOf(row[6]),
     class_name |-> NamesGet(IntOf(row[6])),
     confidence |-> row[5]]

\* line 224-238: the loop over the rows of one result object; the tuple
\* assignment of line 228 raises ValueError on a row that has not 6 fields
RECURSIVE RowsLoop(_, _)
RowsLoop(rows, acc) ==
    IF rows = <<>> \/ acc.raised
    THEN acc
    ELSE IF Malformed(Head(rows))
    THEN RowsLoop(Tail(rows), acc)
    ELSE IF Len(Head(rows)) # 6
    THEN [raised |-> TRUE, list |-> acc.list]
    ELSE RowsLoop(Tail(rows),
                  [raised |-> FALSE,
                   list |-> Append(acc.list, DetectionResult(Head(rows)))])

\* line 222-223: the loop over the result objects
RECURSIVE ResultsLoop(_, _)
ResultsLoop(rs, acc) ==
    IF rs = <<>> \/ acc.raised
    THEN acc
    ELSE ResultsLoop(Tail(rs), RowsLoop(Head(rs), acc))

\* line 210-239: what _process_frame returns, or that it raised
ProcessFrame(rs) ==
    IF ~model
    THEN [raised |-> FALSE, list |-> <<>>]
    ELSE ResultsLoop(rs, [raised |-> FALSE, list |-> <<>>])

\* the worker is about to call _process_frame on a taken frame (line 186)
\* and the model is about to return some raw output
ProcessInit ==
    /\ loop = TRUE
    /\ stop_event = FALSE
    /\ started_event = TRUE
    /\ model = TRUE
    /\ frame_to_process = NoFrame
    /\ frame_lock = LockFree
    /\ thread = 1
    /\ output_queue = <<>>
    /\ callbacks = <<>>
    /\ latest_frame = NoFrame
    /\ wpc = [w \in Workers |-> IF w = 1 THEN "infer" ELSE "unborn"]
    /\ wframe = [w \in Workers |-> IF w = 1 THEN 1 ELSE NoFrame]
    /\ cpc = [c \in Callers |-> "idle"]
    /\ carg = [c \in Callers |-> 0]
    /\ nframes = 1
    /\ overwritten = {}
    /\ taken = <<[w |-> 1, frame |-> 1]>>
    /\ handed = <<>>
    /\ observed = <<>>
    /\ loadres = [w \in Workers |-> IF w = 1 THEN "ok" ELSE "none"]
    /\ restarted = {}
    /\ quiet = FALSE
    /\ results \in ResultLists
    /\ detections = <<>>
    /\ pfpc = "call"
    /\ mthread = [m \in Managed |-> "new"]
    /\ mpc = [m \in Managed |-> "idle"]
    /\ mexc = [m \in Managed |-> FALSE]
    /\ NoMain

\* line 186: results = self._process_frame(frame) returns or raises
ProcessFrameCall ==
    /\ pfpc = "call"
    /\ detections' = ProcessFrame(results)
    /\ pfpc' = "done"
    /\ UNCHANGED <<results, engineVars, loopVars, threadVars, histVars,
                   tmVars, mainVars>>

ProcessSpec == ProcessInit /\ [][ProcessFrameCall]_vars

\* ------------------------------------------------------------------------
\* ThreadManager (src/src/concurrency/thread_manager.py): with
\* ThreadManager(t): body.  The engine is not involved; its variables keep
\* their initial values.

\* a with statement is about to be entered on a Thread in any of the states
\* a threading.Thread can be in
ManagerInit ==
    /\ loop = FALSE
    /\ stop_event = FALSE
    /\ started_event = FALSE
    /\ model = FALSE
    /\ frame_to_process = NoFrame
    /\ frame_lock = LockFree
    /\ thread = NoThread
    /\ output_queue = <<>>
    /\ callbacks = <<>>
    /\ latest_frame = NoFrame
    /\ wpc = [w \in Workers |-> "unborn"]
    /\ wframe = [w \in Workers |-> NoFrame]
    /\ cpc = [c \in Callers |-> "idle"]
    /\ carg = [c \in Callers |-> 0]
    /\ nframes = 0
    /\ overwritten = {}
    /\ taken = <<>>
    /\ handed = <<>>
    /\ observed = <<>>
    /\ loadres = [w \in Workers |-> "none"]
    /\ restarted = {}
    /\ quiet = FALSE
    /\ results = <<>>
    /\ detections = <<>>
    /\ pfpc = "idle"
    /\ mthread \in [Managed -> {"new", "alive", "finished"}]
    /\ mpc = [m \in Managed |-> "before"]
    /\ mexc = [m \in Managed |-> FALSE]
    /\ NoMain

nonTmVars == <<engineVars, loopVars, threadVars, histVars, pfVars,
               mainVars>>

\* line 37: if not self._thread.is_alive()
EnterCheck(m) ==
    /\ mpc[m] = "before"
    /\ mpc' = [mpc EXCEPT ![m] =
                 IF mthread[m] = "alive" THEN "body" ELSE "enter_start"]
    /\ UNCHANGED <<mthread, mexc, nonTmVars>>

\* line 38: self._thread.start(); Thread.start() raises RuntimeError on a
\* Thread that was started before, and the with body is then not run
EnterStart(m) ==
    /\ mpc[m] = "enter_start"
    /\ IF mthread[m] = "new"
       THEN /\ mthread' = [mthread EXCEPT ![m] = "alive"]
            /\ mpc' = [mpc EXCEPT ![m] = "body"]
       ELSE /\ mpc' = [mpc EXCEPT ![m] = "enter_raised"]
            /\ UNCHANGED mthread
    /\ UNCHANGED <<mexc, nonTmVars>>

\* the with body ends, normally or through an exception; __exit__ is
\* called in both cases
BodyEnds(m) ==
    /\ mpc[m] = "body"
    /\ \E raised \in BOOLEAN : mexc' = [mexc EXCEPT ![m] = raised]
    /\ mpc' = [mpc EXCEPT ![m] = "exit_check"]
    /\ UNCHANGED <<mthread, nonTmVars>>

\* line 50: if self._thread.is_alive()
ExitCheck(m) ==
    /\ mpc[m] = "exit_check"
    /\ mpc' = [mpc EXCEPT ![m] =
                 IF mthread[m] = "alive" THEN "exit_join" ELSE "after"]
    /\ UNCHANGED <<mthread, mexc, nonTmVars>>

\* line 51: self._thread.join() returns
ExitJoin(m) ==
    /\ mpc[m] = "exit_join"
    /\ mthread[m] # "alive"
    /\ mpc' = [mpc EXCEPT ![m] = "after"]
    /\ UNCHANGED <<mthread, mexc, nonTmVars>>

\* the target of the managed Thread returns
ManagedThreadEnds(m) ==
    /\ mthread[m] = "alive"
    /\ mthread' = [mthread EXCEPT ![m] = "finished"]
    /\ UNCHANGED <<mpc, mexc, nonTmVars>>

ManagerNext ==
    \E m \in Managed :
        \/ EnterCheck(m) \/ EnterStart(m) \/ BodyEnds(m)
        \/ ExitCheck(m) \/ ExitJoin(m) \/ ManagedThreadEnds(m)

ManagerSpec == ManagerInit /\ [][ManagerNext]_vars

\* ========================================================================
\* Properties

\* the frame stored by the last completed submit_frame
LastStored == IF cpc["aux"] = "submit_locked" THEN nframes - 1 ELSE nframes

\* the Outcomes handed to the bridge by Thread w, in order
HandedBy(w) == SelectSeq(handed, LAMBDA x : x.worker = w)

\* the Outcomes handed to the bridge for the cycle that took frame f
HandedFor(f) == SelectSeq(handed, LAMBDA x : x.cycle = f)

\* the burst of submissions frame f belongs to: a burst ends with the
\* frame that is not replaced before a take
BurstOf(f) == Cardinality({g \in 1..(f - 1) : g \notin overwritten})

WorkerAlive == \E w \in Workers : IsAlive(w)

\* C1: the mailbox holds no frame or one frame, and that frame is the one
\* stored last; a take returns what the mailbox holds, which is never a
\* frame that a later submission replaced, and leaves the mailbox empty.
SingleSlotMailbox ==
    /\ [](/\ frame_to_process \in {NoFrame} \cup Frames
          /\ frame_to_process # NoFrame => frame_to_process = LastStored
          /\ \A i \in DOMAIN taken : taken[i].frame \notin overwritten)
    /\ [][\A w \in Workers :
            (wpc[w] = "locked" /\ wpc'[w] # "locked") =>
                /\ wframe'[w] = frame_to_process
                /\ frame_to_process' = NoFrame
                /\ frame_to_process # NoFrame =>
                       frame_to_process = LastStored]_vars

\* two submissions without a take between them, then a take of the second
C1Witness ==
    /\ 1 \in overwritten
    /\ \E i \in DOMAIN taken : taken[i].frame = 2
    /\ \E w \in Workers : wpc[w] = "infer" /\ wframe[w] = 2
    /\ frame_to_process = NoFrame

\* Thread w is inside the while loop of _run_loop
InLoop(w) == wpc[w] \in {"loop", "lock", "locked", "infer", "idle"}

\* C2: of a burst of submissions with no take between them only the last
\* frame is taken and processed: no Outcome belongs to a replaced frame,
\* and no two Outcomes belong to the same burst; with a worker in its
\* loop, the frame in the mailbox gets its Outcome unless it is replaced
\* or the stop flag is set first.
LatestWins ==
    /\ [](/\ \A i \in DOMAIN taken : taken[i].frame \notin overwritten
          /\ \A i \in DOMAIN handed :
               handed[i].cycle # NoFrame =>
                   /\ handed[i].cycle \notin overwritten
                   /\ handed[i].kind = "Success" =>
                          handed[i].frame = handed[i].cycle
                   /\ \A j \in DOMAIN handed :
                       (handed[j].cycle # NoFrame /\ i # j) =>
                           BurstOf(handed[i].cycle) # BurstOf(handed[j].cycle)
          /\ \A i \in DOMAIN output_queue :
               output_queue[i].frame \notin overwritten)
    /\ \A f \in Frames :
        (frame_to_process = f /\ \E w \in Workers : InLoop(w))
            ~> (\/ Len(HandedFor(f)) = 1
                \/ f \in overwritten
                \/ stop_event)

\* a burst of two submissions whose second frame reached the result queue
C2Witness ==
    /\ 1 \in overwritten
    /\ \E i \in DOMAIN output_queue :
        output_queue[i].kind = "Success" /\ output_queue[i].frame = 2

\* C3: the Outcomes the consumer has polled, those in the result queue and
\* those still waiting as callbacks of the loop are, in this order, the
\* Outcomes in the order the worker handed them to the bridge: none is
\* reordered, dropped or duplicated.
OrderPreserved == handed = observed \o output_queue \o callbacks

\* two Outcomes polled while a third is on its way
C3Witness ==
    /\ Len(observed) >= 2
    /\ Len(output_queue) + Len(callbacks) >= 1

\* C4: when a stop() call returns, every Thread up to the one it joined
\* (every Thread when it found no handle) is not alive and holds no lock.
JoinGuarantee ==
    [][\A c \in Callers :
        (InStop(c) /\ cpc'[c] = "idle") =>
            \A w \in Workers :
                (cpc[c] = "stop_check" \/ w <= carg[c]) =>
                    /\ wpc'[w] \in {"unborn", "new", "dead"}
                    /\ frame_lock' # w]_vars

\* a stop() has returned after a worker that ran its loop, a frame pending
C4Witness ==
    /\ quiet
    /\ frame_to_process # NoFrame
    /\ \E w \in Workers : wpc[w] = "dead" /\ loadres[w] = "ok"

\* C5 (as claimed): once a stop() has returned, with no start() issued
\* since, nothing more is appended to the result queue.
NoLateDelivery == [][quiet => Len(output_queue') <= Len(output_queue)]_vars

\* C6: at most one Thread is alive, and at most one model call (load with
\* warm-up, or frame inference) is in progress.
SingleWorker ==
    /\ Cardinality({w \in Workers : IsAlive(w)}) <= 1
    /\ Cardinality({w \in Workers : wpc[w] \in {"loading", "infer"}}) <= 1

\* a second worker inside a model call after the first has terminated
C6Witness ==
    \E v, w \in Workers : wpc[v] = "dead" /\ wpc[w] = "loading"

\* C7: a worker whose model load failed has terminated, has handed exactly
\* one Outcome to the bridge, the load Failure, and has taken no frame.
FatalLoadPath ==
    \A w \in Workers :
        loadres[w] = "fail" =>
            /\ wpc[w] = "dead"
            /\ Len(HandedBy(w)) = 1
            /\ HandedBy(w)[1].kind = "Failure"
            /\ HandedBy(w)[1].msg = "Failed to load model"
            /\ \A i \in DOMAIN taken : taken[i].w # w

\* the load failed and every frame of the behaviour was submitted since
C7Witness ==
    /\ \E w \in Workers : loadres[w] = "fail"
    /\ nframes = MaxFrames
    /\ LastStored = MaxFrames
    /\ frame_to_process = MaxFrames

\* Thread w handed over a frame-processing Failure
ProcessFailed(w) ==
    \E i \in DOMAIN handed :
        handed[i].worker = w /\ handed[i].msg = "Failed to process frame"

\* C8: a worker that handed over a frame-processing Failure handed nothing
\* else for that frame and is still alive unless the stop flag is set; a
\* frame that is in the mailbox while such a worker lives is taken and gets
\* its own Outcome, unless it is replaced or the stop flag is set first.
ProcessFailureNonFatal ==
    /\ [](\A i \in DOMAIN handed :
            handed[i].msg = "Failed to process frame" =>
                /\ handed[i].kind = "Failure"
                /\ Len(HandedFor(handed[i].cycle)) = 1
                /\ ~stop_event => IsAlive(handed[i].worker))
    /\ \A f \in Frames :
        (/\ frame_to_process = f
         /\ \E w \in Workers : ProcessFailed(w) /\ IsAlive(w))
            ~> (\/ Len(HandedFor(f)) = 1
                \/ f \in overwritten
                \/ stop_event)

\* after its processing Failure the same worker handed over the Outcome
\* of a later frame
C8Witness ==
    \E i, j \in DOMAIN handed :
        /\ i < j
        /\ handed[i].msg = "Failed to process frame"
        /\ handed[j].worker = handed[i].worker
        /\ handed[j].cycle > handed[i].cycle
        /\ ~stop_event

\* C9 (as claimed): a worker created by a start() issued after a stop()
\* had returned, with no stop() issued since, stays in its loop once the
\* model is loaded.
RestartRuns ==
    \A w \in restarted : loadres[w] = "ok" => IsAlive(w)

\* C10: a start() issued while a Thread is alive goes to the return of
\* line 131 and returns from there; neither step changes a field of the
\* engine, a Thread or the event loop.
StartNoOpWhileRunning ==
    [][\A c \in Callers :
        /\ (cpc[c] = "idle" /\ WorkerAlive /\ cpc'[c] \in
                {"start_return", "start_assign", "start_raise"}) =>
               /\ cpc'[c] = "start_return"
               /\ UNCHANGED <<engineVars, loopVars, wpc, wframe>>
        /\ (cpc[c] = "start_return" /\ cpc'[c] # "start_return") =>
               /\ cpc'[c] = "idle"
               /\ UNCHANGED <<engineVars, loopVars, wpc, wframe>>]_vars

\* a start() found the worker alive and is about to return
C10Witness ==
    \E c \in Callers : cpc[c] = "start_return" /\ WorkerAlive

\* the positions a start() call reaches with its first step
StartFirst == {"start_return", "start_assign", "start_raise"}

\* C11 (as claimed): every start() issued on a thread without a running
\* event loop raises, and changes no field of the engine, a Thread or the
\* event loop.
StartWithoutLoopRaises ==
    [][\A c \in Callers :
        (~HasRunningLoop(c) /\ cpc[c] = "idle" /\ cpc'[c] \in StartFirst) =>
            /\ cpc'[c] = "start_raise"
            /\ UNCHANGED <<engineVars, loopVars, wpc, wframe>>]_vars

\* C11 (amended): a start() issued on a thread without a running event
\* loop raises when no Thread is alive and returns as a no-op when one is
\* alive; in both cases neither the call nor its end changes a field of the
\* engine (handle, loop, mailbox, stop flag, readiness), a Thread or the
\* event loop, and no Thread is created or started.
NotReadyError ==
    [][\A c \in Callers :
        ~HasRunningLoop(c) =>
            /\ (cpc[c] = "idle" /\ cpc'[c] \in StartFirst) =>
                   /\ cpc'[c] = IF WorkerAlive THEN "start_return"
                                               ELSE "start_raise"
                   /\ UNCHANGED <<engineVars, loopVars, wpc, wframe>>
            /\ (cpc[c] = "start_raise" /\ cpc'[c] # "start_raise") =>
                   /\ cpc'[c] = "idle"
                   /\ UNCHANGED <<engineVars, loopVars, wpc, wframe>>]_vars

\* start() is about to raise on the loop-less thread while the handle holds
\* a terminated Thread and a frame waits in the mailbox
C11Witness ==
    /\ cpc["aux"] = "start_raise"
    /\ thread # NoThread
    /\ wpc[thread] = "dead"
    /\ frame_to_process # NoFrame

\* no Thread is created, started or running and no start() is in progress:
\* the engine before its first start(), after a stop() that has returned,
\* or after a worker that terminated by itself
Settled ==
    /\ \A w \in Workers : wpc[w] \in {"unborn", "dead"}
    /\ \A d \in Callers : ~InStart(d)

\* caller c takes a step of stop()
StopStep(c) == cpc'[c] # cpc[c] /\ (InStop(c) \/ cpc'[c] = "stop_check")

\* C12: in a settled engine every step of a stop() call goes on without
\* raising and without waiting (no handle: it returns at the check; a
\* handle: the join finds the Thread terminated), leaves the engine settled
\* and changes no field of the engine or of a Thread except that it sets
\* the stop flag; with the flag already set, as after a stop() that has
\* returned, it changes no engine field at all.
StopIdempotent ==
    /\ [](\A c \in Callers :
            (Settled /\ cpc[c] = "stop_wait") => JoinDone(carg[c]))
    /\ [][\A c \in Callers :
            (Settled /\ StopStep(c)) =>
                /\ cpc'[c] \in {"stop_check", "stop_join", "stop_wait", "idle"}
                /\ (cpc[c] = "stop_check" /\ thread = NoThread) =>
                       cpc'[c] = "idle"
                /\ stop_event'
                /\ UNCHANGED <<loop, started_event, model, frame_to_process,
                               frame_lock, thread, output_queue, wpc, wframe>>
                /\ stop_event => UNCHANGED engineVars
                /\ Settled']_vars

\* a second stop(), issued after a stop() that returned, is inside its join
\* of the terminated Thread while a frame waits in the mailbox
C12Witness ==
    /\ quiet
    /\ frame_to_process # NoFrame
    /\ \E c \in Callers : cpc[c] = "stop_wait" /\ wpc[carg[c]] = "dead"

\* C13 (as claimed): a stop() that runs while a start() is in progress on
\* another thread never raises, and it does not return past the start():
\* it never returns for want of a handle while the start() has still to
\* assign the handle and start the Thread, which would then be alive after
\* both calls have returned.
StopSafeDuringStart ==
    /\ [](\A c \in Callers : cpc[c] # "stop_raise")
    /\ [][\A c \in Callers :
            (cpc[c] = "stop_check" /\ cpc'[c] = "idle") =>
                \A d \in Callers : ~InStart(d)]_vars

\* caller c takes a step of submit_frame()
SubmitStep(c) ==
    cpc'[c] # cpc[c] /\ "submit_locked" \in {cpc[c], cpc'[c]}

\* C14: in every state, before a start() included, submit_frame leaves its
\* frame in the mailbox and changes nothing else but the lock it takes and
\* releases; a frame leaves the mailbox only when a later submission
\* replaces it or when a worker whose model is loaded takes it; and every
\* frame submitted before a taken frame was replaced or taken earlier, so a
\* frame waiting since before start() that is not replaced is the first
\* frame the worker takes.
SubmitAnyState ==
    /\ [][\A c \in Callers :
            SubmitStep(c) =>
                /\ UNCHANGED <<loop, stop_event, started_event, model, thread,
                               output_queue, loopVars, wpc, wframe>>
                /\ cpc[c] = "submit_locked" =>
                       /\ cpc'[c] = "idle"
                       /\ frame_to_process' = carg[c]
                       /\ frame_lock' = LockFree]_vars
    /\ [][(frame_to_process # NoFrame
              /\ frame_to_process' # frame_to_process) =>
            \/ /\ frame_to_process' > frame_to_process
               /\ frame_to_process \in overwritten'
            \/ /\ frame_to_process' = NoFrame
               /\ \E w \in Workers :
                    /\ wpc[w] = "locked"
                    /\ wpc'[w] = "infer"
                    /\ loadres[w] = "ok"
                    /\ wframe'[w] = frame_to_process]_vars
    /\ [](\A i \in DOMAIN taken :
            \A f \in 1..(taken[i].frame - 1) :
                \/ f \in overwritten
                \/ \E j \in 1..(i - 1) : taken[j].frame = f)

\* a frame submitted before any start() waits in the mailbox
C14Witness ==
    /\ frame_to_process = 1
    /\ cpc["aux"] = "idle"
    /\ thread = NoThread
    /\ \A w \in Workers : wpc[w] = "unborn"
    /\ \A d \in Callers : ~InStart(d)

\* the consumer has polled a Success carrying frame f
SuccessObserved(f) ==
    \E i \in DOMAIN observed :
        observed[i].kind = "Success" /\ observed[i].frame = f

\* the consumer has polled the Outcome of the cycle that took frame f
OutcomeObserved(f) ==
    \E i \in DOMAIN observed :
        /\ observed[i].cycle = f
        /\ observed[i].kind = "Success" => observed[i].frame = f

\* a frame is in the mailbox, the stop flag is not set and a worker is in
\* its loop (started, model loaded)
FramePending ==
    /\ frame_to_process # NoFrame
    /\ ~stop_event
    /\ \E w \in Workers : InLoop(w)

\* C15 (as claimed): with a worker in its loop and the stop flag not set, a
\* frame in the mailbox leads to a state in which the consumer has polled a
\* Success for it and for every other frame submitted and not replaced,
\* unless stop() is called first.
EventualSuccess ==
    FramePending ~>
        (\/ stop_event
         \/ \A f \in 1..nframes : f \in overwritten \/ SuccessObserved(f))

\* C15 (amended): with a worker in its loop and the stop flag not set, a
\* frame in the mailbox leads to a state in which the consumer has polled
\* the Outcome of its cycle, and of the cycle of every other frame
\* submitted and not replaced: a Success carrying the frame, or the Failure
\* of a processing call that raised; unless stop() is called first.
EventualDelivery ==
    FramePending ~>
        (\/ stop_event
         \/ \A f \in 1..nframes : f \in overwritten \/ OutcomeObserved(f))

\* the consumer has polled the Success of a frame, no stop() called
C15Witness ==
    /\ ~stop_event
    /\ \E f \in Frames : SuccessObserved(f) /\ f \notin overwritten
    /\ \E w \in Workers : InLoop(w)

\* some Thread has been started by line 142 of a start() call
SomeThreadStarted == \E w \in Workers : wpc[w] \notin {"unborn", "new"}

\* C16: started_event is set only by the last step of a start() call whose
\* Thread has been started, never by a call that ends at the return of
\* line 131 or at the raise of line 136; so it is set only when some Thread
\* was started, and feed_worker, which waits for it, enters submit_frame
\* only after that.
ReadinessOrdering ==
    /\ [](started_event => SomeThreadStarted)
    /\ [][(started_event' # started_event) =>
            /\ started_event'
            /\ \E c \in Callers :
                /\ cpc[c] = "start_ready"
                /\ cpc'[c] = "idle"
                /\ thread # NoThread
                /\ wpc[thread] \notin {"unborn", "new"}]_vars
    /\ [][\A c \in Callers :
            (cpc[c] # "submit_locked" /\ cpc'[c] = "submit_locked") =>
                started_event /\ SomeThreadStarted]_vars

\* feed_worker has submitted a frame, which waits in the mailbox
C16Witness ==
    /\ started_event
    /\ cpc["aux"] = "idle"
    /\ frame_to_process # NoFrame

\* Thread w is inside a call of the model: YOLO(...) and the warm-up, or
\* _process_frame
InModelCall(w) == wpc[w] \in {"loading", "infer"}

\* C17: a Thread holds the mailbox lock only between its acquire and its
\* take; while a Thread is inside a model call no Thread holds the lock, a
\* submit_frame that holds it can store and return, and one that has not
\* begun can acquire it.
SubmitNeverWaitsForModel ==
    /\ \A w \in Workers : frame_lock = w => wpc[w] = "locked"
    /\ (\E w \in Workers : InModelCall(w)) =>
            /\ frame_lock \in {LockFree, SubmitterHolds}
            /\ \A c \in Callers :
                /\ cpc[c] = "submit_locked" =>
                       frame_lock = SubmitterHolds /\ ENABLED SubmitStore(c)
                /\ (c = "aux" /\ cpc[c] = "idle" /\ nframes < MaxFrames) =>
                       ENABLED SubmitCall(c)

\* a submit_frame holds the lock while the worker is inside _process_frame
C17Witness ==
    /\ cpc["aux"] = "submit_locked"
    /\ \E w \in Workers : wpc[w] = "infer"

\* all rows of the raw output, in the order the model returned them
RECURSIVE AllRows(_)
AllRows(rs) == IF rs = <<>> THEN <<>> ELSE Head(rs) \o AllRows(Tail(rs))

\* the rows of 6 fields among them, in that order
WellFormedRows(rs) == SelectSeq(AllRows(rs), LAMBDA row : Len(row) = 6)

\* C18: for every raw output of the model, _process_frame does not raise
\* and returns one DetectionResult for each row of 6 fields, in the order
\* of those rows, built from the fields of that row; rows of another field
\* count leave no trace.
MalformedRowsDropped ==
    pfpc = "done" =>
        /\ ~detections.raised
        /\ Len(detections.list) = Len(WellFormedRows(results))
        /\ \A i \in DOMAIN detections.list :
            LET row == WellFormedRows(results)[i]
                d == detections.list[i]
            IN  /\ d.box = <<row[1], row[2], row[3], row[4]>>
                /\ d.confidence = row[5]
                /\ d.class_id = row[6] \div 10
                /\ d.class_name = IF d.class_id = 1 THEN "chip"
                                  ELSE IF d.class_id = 2 THEN "cat"
                                  ELSE "Unknown"

\* the call returned from an output that mixes a short row, a long row and
\* two well-formed rows
C18Witness ==
    /\ pfpc = "done"
    /\ Len(detections.list) = 2
    /\ \E i, j \in DOMAIN AllRows(results) :
        /\ Len(AllRows(results)[i]) < 6
        /\ Len(AllRows(results)[j]) > 6

\* C19: while the result queue is empty no step, a poll included, changes
\* the consumer's state (latest_frame, which stands for latest_detections
\* too, the fps tracker, the log); the queue changes only by one put at its
\* tail or by the removal of its head; and the consumer's state changes
\* only in a poll that removes exactly the head and records exactly it.
PollIsNonBlocking ==
    /\ [][output_queue = <<>> =>
            UNCHANGED <<latest_frame, observed, fps_tracker, log_widget>>]_vars
    /\ [][output_queue' # output_queue =>
            \/ /\ output_queue # <<>>
               /\ output_queue' = Tail(output_queue)
               /\ observed' = Append(observed, Head(output_queue))
            \/ /\ \E item \in {callbacks[i] : i \in DOMAIN callbacks} :
                    output_queue' = Append(output_queue, item)
               /\ UNCHANGED <<latest_frame, observed>>]_vars
    /\ [][(observed' # observed \/ latest_frame' # latest_frame) =>
            /\ cpc["ui"] = "idle"
            /\ output_queue # <<>>
            /\ output_queue' = Tail(output_queue)
            /\ observed' = Append(observed, Head(output_queue))
            /\ latest_frame' \in {latest_frame, Head(output_queue).frame}]_vars

\* the consumer has polled a Success and a Failure and now polls an empty
\* queue
C19Witness ==
    /\ cpc["ui"] = "idle"
    /\ output_queue = <<>>
    /\ callbacks = <<>>
    /\ latest_frame # NoFrame
    /\ fps_tracker # <<>>
    /\ log_widget # <<>>

\* the handle names a Thread that terminated because its model load
\* failed: no later start() has assigned a new Thread yet
LoadFailed ==
    /\ thread # NoThread
    /\ loadres[thread] = "fail"
    /\ wpc[thread] = "dead"

\* Thread w was created by the first start() after a Thread whose model
\* load had failed (Thread objects are numbered in creation order)
StartedAfterLoadFailure(w) == w > 1 /\ loadres[w - 1] = "fail"

\* C20 (as claimed): after a fatal load failure and until a fresh start()
\* assigns a new Thread, no frame is taken and no Outcome is handed over,
\* stop() neither raises nor waits, and start() on the loop thread goes on
\* to create a Thread; the Thread a fresh start() created, once its model
\* is loaded, stays in its loop, where it takes the submitted frames, as
\* long as no stop() is issued after that start().
FreshStartAfterLoadFailure ==
    /\ [](LoadFailed =>
            \A c \in Callers : cpc[c] = "stop_wait" => JoinDone(carg[c]))
    /\ [][LoadFailed =>
            /\ UNCHANGED <<taken, handed>>
            /\ \A c \in Callers :
                /\ StopStep(c) => cpc'[c] # "stop_raise"
                /\ (HasRunningLoop(c) /\ cpc[c] = "idle"
                        /\ cpc'[c] \in StartFirst) =>
                       cpc'[c] = "start_assign"]_vars
    /\ [](\A w \in Workers :
            (/\ StartedAfterLoadFailure(w)
             /\ loadres[w] = "ok"
             /\ ~stop_event \/ w \in restarted) => IsAlive(w))

\* C21 (as claimed): entering the with block never raises; it starts a
\* Thread that is not alive and leaves an alive one alone; and once the
\* with statement is left, after a body that ended normally or through an
\* exception, the Thread is not alive.
StartThenJoin ==
    /\ [](\A m \in Managed :
            /\ mpc[m] # "enter_raised"
            /\ mpc[m] = "body" => mthread[m] # "new"
            /\ mpc[m] = "after" => mthread[m] # "alive")
    /\ [][\A m \in Managed :
            (mpc[m] = "before" /\ mthread[m] = "alive" /\ mpc'[m] # "before")
                => (mpc'[m] = "body" /\ mthread'[m] = mthread[m])]_vars

\* the cycle of Thread w that took frame f has not handed over yet
CycleUnderWay(w, f) == wpc[w] = "infer" /\ wframe[w] = f

\* C22: every take of a frame has, once its cycle is over, exactly one
\* Outcome handed to the bridge, by the Thread that took it: a Success
\* carrying that frame or a Failure carrying the processing message; while
\* the cycle is under way it has none; every Outcome handed over belongs
\* to a take or is the Failure of a model load; and a Thread that found the
\* mailbox empty, or is between cycles, hands nothing over.
OneOutcomePerCycle ==
    /\ [](/\ \A i \in DOMAIN taken :
               LET f == taken[i].frame
                   w == taken[i].w
               IN  IF CycleUnderWay(w, f)
                   THEN HandedFor(f) = <<>>
                   ELSE /\ Len(HandedFor(f)) = 1
                        /\ HandedFor(f)[1].worker = w
                        /\ \/ /\ HandedFor(f)[1].kind = "Success"
                              /\ HandedFor(f)[1].frame = f
                           \/ /\ HandedFor(f)[1].kind = "Failure"
                              /\ HandedFor(f)[1].msg = "Failed to process frame"
          /\ \A j \in DOMAIN handed :
               \/ \E i \in DOMAIN taken : taken[i].frame = handed[j].cycle
               \/ /\ handed[j].cycle = NoFrame
                  /\ handed[j].msg = "Failed to load model")
    /\ [][\A w \in Workers :
            (wpc[w] \in {"loop", "lock", "locked", "idle"}
                /\ wpc'[w] # wpc[w]) => handed' = handed]_vars

\* a cycle ended with a Success, another with a Failure, and the worker has
\* just found the mailbox empty
C22Witness ==
    /\ \E j \in DOMAIN handed : handed[j].kind = "Success"
    /\ \E j \in DOMAIN handed : handed[j].msg = "Failed to process frame"
    /\ \E w \in Workers : wpc[w] = "idle"

\* the part of C23 that holds: under fair scheduling of the worker (every
\* model call ends), of submit_frame and of the thread inside stop(), every
\* stop() call ends, by returning or by the RuntimeError of line 149; and
\* with the stop flag set a Thread that reaches the top of its loop exits
\* there, so it completes at most the load or the cycle under way.
StopTerminates ==
    /\ \A c \in Callers : InStop(c) ~> ~InStop(c)
    /\ [][\A w \in Workers :
            (stop_event /\ wpc[w] = "loop" /\ wpc'[w] # "loop") =>
                wpc'[w] = "dead"]_vars

\* C23 (as claimed): under the same fair scheduling a stop() issued in any
\* state eventually returns: the call ends, and it ends by returning to its
\* caller, never by raising; and with the stop flag set the worker exits at
\* the top of its loop.
StopEventuallyReturns ==
    /\ StopTerminates
    /\ [][\A c \in Callers : InStop(c) => cpc'[c] # "stop_raise"]_vars

\* a stop() waits in join() for a worker inside a model call while a
\* submitter holds the mailbox lock
C23Witness ==
    /\ \E c \in Callers : cpc[c] = "stop_wait" /\ wpc[carg[c]] = "infer"
    /\ frame_lock = SubmitterHolds

\* C24: once set, the stop flag stays set whatever operation runs next
\* (start(), stop(), submit_frame(), the worker loop, the consumer), and a
\* Thread that makes a loop check with the flag set, its first one included,
\* leaves the loop there and terminates.
StopFlagMonotone ==
    /\ [][stop_event => stop_event']_vars
    /\ [][\A w \in Workers :
            (stop_event /\ wpc[w] = "loop" /\ wpc'[w] # wpc[w]) =>
                /\ wpc'[w] = "dead"
                /\ taken' = taken
                /\ stop_event']_vars

\* after a stop() a second Thread was started, loaded its model and
\* terminated at its first loop check, leaving a submitted frame untaken
C24Witness ==
    /\ stop_event
    /\ \E w \in Workers :
        /\ w > 1
        /\ wpc[w] = "dead"
        /\ loadres[w] = "ok"
        /\ \A j \in DOMAIN taken : taken[j].w # w
    /\ frame_to_process # NoFrame
    /\ \A c \in Callers : cpc[c] = "idle"

\* C25: every Success Outcome, wherever it is between the worker and the
\* consumer, carries a frame that was passed to submit_frame before and that
\* its cycle took; no submission is taken twice; no cycle yields two
\* Outcomes; and the Outcomes of cycles are never more than the
\* submit_frame calls.
NoDuplicationNoInvention ==
    /\ \A q \in {output_queue, callbacks, handed, observed} :
        \A j \in DOMAIN q :
            q[j].kind = "Success" =>
                /\ q[j].frame \in 1..nframes
                /\ q[j].frame = q[j].cycle
                /\ \E i \in DOMAIN taken : taken[i].frame = q[j].frame
    /\ \A i, j \in DOMAIN taken :
        /\ taken[i].frame \in 1..nframes
        /\ taken[i].frame = taken[j].frame => i = j
    /\ \A f \in Frames : Len(HandedFor(f)) <= 1
    /\ \A j \in DOMAIN handed :
        handed[j].cycle # NoFrame =>
            \E i \in DOMAIN taken : taken[i].frame = handed[j].cycle
    /\ \A q \in {output_queue, observed} :
        \A i, j \in DOMAIN q : q[i].id = q[j].id => i = j
    /\ Len(SelectSeq(handed, LAMBDA x : x.cycle # NoFrame)) <= nframes

\* every submission made was taken and its Success has reached the queue
\* or the consumer, with a later submission still in the mailbox
C25Witness ==
    /\ nframes = MaxFrames
    /\ Len(taken) = MaxFrames - 1
    /\ frame_to_process = MaxFrames
    /\ \A f \in 1..(MaxFrames - 1) :
        \E j \in DOMAIN observed :
            observed[j].kind = "Success" /\ observed[j].frame = f

\* C26 (as claimed): in both modes of main(), once the main thread has set
\* stop_event (line 101) feed_worker eventually returns and the join of line
\* 102 returns, whether or not the engine was started and whether or not
\* the feed was paused when the app was left.
FeedThreadShutdown == main_stop_event ~> (feedpc = "done" /\ mainpc = "end")

\* the part of C26 that holds: in tui mode, a feed paused at exit included
TuiFeedShutdown ==
    (mode = "tui" /\ main_stop_event) ~> (feedpc = "done" /\ mainpc = "end")

====
